---- MODULE Spec2Model ----
(***************************************************************************)
(* Muninn message archive: FsMessageRepo (src/src/repos/messages.rs).      *)
(* The repository keeps an in-memory cache keyed by (hash, user) and one   *)
(* JSON day file per (user, date).  The model follows the four operations  *)
(* of the MessageRepo trait, the inherent get_all_for_user that shadows    *)
(* the trait method inside the impl, a process restart and the clock.      *)
(***************************************************************************)
EXTENDS Integers, Sequences, FiniteSets, TLC

\* ------------------------------------------------------------------ bounds
MaxSaves == 2
Scale == 100
MaxUserLen == 2
MaxCalls == 3

\* ------------------------------------------------------------------ inputs
Users == {"alice", "bob"}
Ids == {"h1", "h2"}
Dates == {1, 2, 3}
\* The dates handed to save_chat while storage is healthy: with today going
\* through Dates they are past, present and future dates.
SaveDates == {1, 2}
Variants == {"A", "B"}

\* Embedding vectors handed to save_chat and query vectors handed to search.
VecOf(v) == IF v = "A" THEN <<1, 2>> ELSE <<2, 1>>
Queries == {<<1, 2>>, <<0, 0>>}

\* struct ChatModel { role, content, hash, embedding }
ChatModel(id, v) ==
    [role |-> IF v = "A" THEN "user" ELSE "assistant",
     content |-> IF v = "A" THEN "Hello" ELSE "Bye",
     hash |-> id,
     embedding |-> VecOf(v)]

Messages == {ChatModel("h1", "A"), ChatModel("h1", "B"), ChatModel("h2", "A")}

\* Option::None of HashMap::get, as a value of the same shape.
NoChat == [role |-> "", content |-> "", hash |-> "", embedding |-> <<>>]

Keys == Ids \X Users

\* Outcomes of the two fallible storage calls of save_chat:
\*   "ok"      create_dir_all and write both succeed
\*   "nodir"   create_dir_all fails
\*   "nowrite" write fails before the file is touched (open refused)
\*   "partial" write fails after truncating the file (contents unparseable)
IoOutcomes == {"ok", "nodir", "nowrite", "partial"}

VARIABLES
    memory,     \* FsMessageRepo.memory : (hash, user) -> ChatModel
    disk,       \* (user, date) -> the date directory and its messages.json
    today,      \* chrono::Local::now().date_naive()
    nsaves,     \* number of save_chat calls so far (bounded by MaxSaves)
    everSaved,  \* history: keys save_chat was ever called with
    procSaved,  \* history: per key, the chat of the latest save_chat call of this process
    last        \* the last operation, its arguments and what it returned

\* The stub repository (MockMessageRepo) and what its callers saw.
VARIABLES
    mock,       \* the MockMessageRepo value
    mock_prev,  \* the call before the last one, its arguments and its result
    mock_last   \* the last call, its arguments and its result

\* The path resolver's callers.
VARIABLES
    path_prev,  \* the resolution before the last one: user, date and the path
    path_last   \* the last resolution: user, date and the path

\* ChatHandlerImpl (src/src/handlers/chat.rs) over the two shared resources.
VARIABLES
    task,       \* per invocation slot: the handler running in it and where it is
    emb_lock,   \* Mutex of embedding_client: 0 when free, else the holding task
    repo_lock,  \* Mutex of message_repo: 0 when free, else the holding task
    ncalls,     \* number of handler invocations so far (bounded by MaxCalls)
    saves_done  \* history: number of save_chat invocations that returned Ok

\* FsMessageRepo with the user names and the paths written out.
VARIABLES
    named_memory,  \* FsMessageRepo.memory : (hash, user name) -> ChatModel
    named_files    \* day-file location -> the JSON array it holds (<<>> when absent)

repo_vars == <<memory, disk, today, nsaves, everSaved, procSaved, last>>
named_vars == <<named_memory, named_files>>
mock_vars == <<mock, mock_prev, mock_last>>
path_vars == <<path_prev, path_last>>
handler_vars == <<task, emb_lock, repo_lock, ncalls, saves_done>>
outside_repo == <<mock_vars, path_vars, handler_vars, named_vars>>
vars == <<repo_vars, mock_vars, path_vars, handler_vars, named_vars>>

\* A day directory: does it exist, is its messages.json unparseable, and the
\* JSON array it holds (<<>> when the file is absent).
NoDir == [dir |-> FALSE, bad |-> FALSE, chats |-> <<>>]

EmptyMemory == [k \in Keys |-> NoChat]

\* What the caller of the last operation passed and got back:
\*   op, user, id, date, io, query  the operation and its arguments
\*   res     "Ok", "Err" (Result::Err(())) or "panic" (an unwrap failed)
\*   chat    the ChatModel returned by save_chat / get_chat
\*   chats   the Vec<ChatModel> returned by get_all_for_user
\*   ranked  the Vec<(f32, ChatModel)> returned by embeddings_search_for_user
Obs(op, user, id, date, io, query, res, chat, chats, ranked) ==
    [op |-> op, user |-> user, id |-> id, date |-> date, io |-> io, query |-> query,
     res |-> res, chat |-> chat, chats |-> chats, ranked |-> ranked]

\* MockMessageRepo::new (lines 180-185): MockMessageRepo {}, a struct with no
\* field; its value is the empty tuple of fields.
mock_new == <<>>

\* A call of the stub: its arguments (chat is the ChatModel handed to save_chat)
\* and what it returned.
MockObs(op, user, id, date, query, arg, res, chat, chats, ranked) ==
    [op |-> op, user |-> user, id |-> id, date |-> date, query |-> query, arg |-> arg,
     res |-> res, chat |-> chat, chats |-> chats, ranked |-> ranked]

NoCall == MockObs("", "", "", 0, <<>>, NoChat, "", NoChat, <<>>, <<>>)

\* get_root_path / get_path_for_date (lines 54-66).
\* A path or a user name is a sequence of characters; "muninn", a formatted
\* date and "messages.json" are written as one symbol each, since none of
\* them holds a separator.

\* The characters a caller may put in a user name: a letter and the separator.
UserChars == {"a", "/"}

RECURSIVE StringsOfLen(_)
StringsOfLen(n) ==
    IF n = 0 THEN {<<>>}
    ELSE {<<c>> \o w : c \in UserChars, w \in StringsOfLen(n - 1)}

\* user: String, any string up to MaxUserLen characters
UserNames == UNION {StringsOfLen(n) : n \in 0..MaxUserLen}

\* MESSAGE_STORAGE_PATH, or dirs::data_local_dir(): an absolute directory
StorageRoot == <<"/", "r">>

\* format!("{}", date.format("%Y-%m-%d"))
format_date(date) ==
    <<CASE date = 1 -> "2024-01-01" [] date = 2 -> "2024-01-02" [] OTHER -> "2024-01-03">>

\* Path::is_absolute of the joined part
is_absolute(path) == path # <<>> /\ Head(path) = "/"

\* PathBuf::join(base, part): an absolute part replaces base; otherwise part
\* is appended, after a separator unless base already ends with one.
path_join(base, part) ==
    IF is_absolute(part) THEN part
    ELSE LET need_sep == base # <<>> /\ base[Len(base)] # "/"
         IN base \o (IF need_sep THEN <<"/">> ELSE <<>>) \o part

\* get_root_path (lines 54-62)
get_root_path(user) == path_join(path_join(StorageRoot, <<"muninn">>), user)

\* get_path_for_date (lines 63-66)
get_path_for_date(user, date) == path_join(get_root_path(user), format_date(date))

\* get_path_for_date(user, date).join("messages.json"), the day file of
\* save_chat (82), get_chat (102-103) and get_all_for_user (125-126, 150)
DayFile(user, date) == path_join(get_path_for_date(user, date), <<"messages.json">>)

\* The components of a path: what lies between its separators.  Two paths
\* with the same components are the same location of the file system.
RECURSIVE Components(_)
Components(path) ==
    IF path = <<>> THEN <<>>
    ELSE IF Head(path) = "/" THEN Components(Tail(path))
    ELSE LET rest == Components(Tail(path)) IN
         IF Len(path) > 1 /\ path[2] # "/"
         THEN <<(<<Head(path)>> \o Head(rest))>> \o Tail(rest)
         ELSE <<(<<Head(path)>>)>> \o rest

\* The locations a day file can have, and the keys of the cache.
FileLocs == {Components(DayFile(user, date)) : user \in UserNames, date \in Dates}
NamedKeys == Ids \X UserNames
EmptyNamedMemory == [k \in NamedKeys |-> NoChat]

\* No path resolved yet.
NoPath == [done |-> FALSE, user |-> <<>>, date |-> 1, path |-> <<>>]

\* Concurrent invocations of the handlers (actix-web runs each request as
\* its own task over the same Resources).
Tasks == {1, 2}

\* A slot with no invocation in it.
Idle == [op |-> "", pc |-> "idle", hash |-> "", emb |-> "", repo_res |-> "",
         res |-> "", chats |-> <<>>, ranked |-> <<>>, stored |-> FALSE]

Init ==
    /\ task = [t \in Tasks |-> Idle]
    /\ emb_lock = 0
    /\ repo_lock = 0
    /\ ncalls = 0
    /\ saves_done = 0
    /\ named_memory = EmptyNamedMemory
    /\ named_files = [loc \in FileLocs |-> <<>>]
    /\ path_prev = NoPath
    /\ path_last = NoPath
    /\ mock = mock_new
    /\ mock_prev = NoCall
    /\ mock_last = NoCall
    /\ memory = EmptyMemory
    /\ disk = [p \in Users \X Dates |-> NoDir]
    /\ today = 1
    /\ nsaves = 0
    /\ everSaved = {}
    /\ procSaved = EmptyMemory
    /\ last = Obs("new", "", "", 0, "", <<>>, "", NoChat, <<>>, <<>>)

\* ------------------------------------------------------------- pure helpers

Min(a, b) == IF a < b THEN a ELSE b

\* get_from_fs: read_to_string Err(_) => vec![] (absent file);
\* Ok(content) => serde_json::from_str(&content).unwrap() (panics when unparseable).
get_from_fs(d, user, date) ==
    IF d[user, date].bad
    THEN [panic |-> TRUE, chats |-> <<>>]
    ELSE [panic |-> FALSE, chats |-> d[user, date].chats]

\* Mutant: the insert is left out.
memory_insert_forgotten(mem, user, chat) == mem

\* Mutant: the cache is keyed by the hash alone, as before the user was added to the key.
memory_insert_by_hash(mem, user, chat) ==
    [k \in Keys |-> IF k[1] = chat.hash THEN chat ELSE mem[k]]

\* self.memory.insert((chat.hash.clone(), user.clone()), chat.clone())
memory_insert(mem, user, chat) ==
    [mem EXCEPT ![<<chat.hash, user>>] = chat]

\* Mutant: only the first record of the file is put in the cache.
memory_insert_first(mem, user, chats) ==
    IF chats = <<>> THEN mem ELSE memory_insert(mem, user, Head(chats))

\* for chat in chats { self.memory.insert(key, chat.clone()) }, in file order
RECURSIVE memory_insert_all(_, _, _)
memory_insert_all(mem, user, chats) ==
    IF chats = <<>> THEN mem
    ELSE memory_insert_all(memory_insert(mem, user, Head(chats)), user, Tail(chats))

\* Mutant: a record with the same hash is replaced instead of kept.
push_dedup(chats, chat) ==
    LET Other(c) == c.hash # chat.hash IN Append(SelectSeq(chats, Other), chat)

\* Mutant: the new record goes to the front of the array.
push_front(chats, chat) == <<chat>> \o chats

\* chats.push(chat.clone())
push(chats, chat) == Append(chats, chat)

\* std::fs::create_dir_all(path.parent().unwrap())
create_dir_all(d, user, date) == [d EXCEPT ![user, date].dir = TRUE]

\* std::fs::write(&path, serialized) and its three outcomes
fs_write(d, user, date, chats, io) ==
    IF io = "ok" THEN [d EXCEPT ![user, date].chats = chats]
    ELSE IF io = "partial"
    THEN [d EXCEPT ![user, date] = [dir |-> TRUE, bad |-> TRUE, chats |-> <<>>]]
    ELSE d

\* The storage half of save_chat (lines 82-96): the disk afterwards and
\* whether an unwrap panicked on the way.
save_to_disk(d, user, date, chat, io) ==
    IF io = "nodir" THEN [panic |-> TRUE, disk |-> d]
    ELSE LET d1 == create_dir_all(d, user, date)
             r == get_from_fs(d1, user, date)
         IN IF r.panic THEN [panic |-> TRUE, disk |-> d1]
            ELSE [panic |-> FALSE,
                  disk |-> fs_write(d1, user, date, push(r.chats, chat), io)]

\* get_chat (lines 100-122): the cache afterwards and the Result.
get_chat_result(mem, d, t, user, id) ==
    LET key == <<id, user>> IN
    IF mem[key] # NoChat
    THEN [memory |-> mem, res |-> "Ok", chat |-> mem[key]]
    ELSE LET r == get_from_fs(d, user, t) IN
         IF r.panic THEN [memory |-> mem, res |-> "panic", chat |-> NoChat]
         ELSE LET mem1 == memory_insert_all(mem, user, r.chats) IN
              IF mem1[key] # NoChat
              THEN [memory |-> mem1, res |-> "Ok", chat |-> mem1[key]]
              ELSE [memory |-> mem1, res |-> "Err", chat |-> NoChat]

\* read_dir(get_root_path(user)): the date folders of the user
date_folders(d, user) == {date \in Dates : d[user, date].dir}

MaxOf(S) == CHOOSE x \in S : \A y \in S : y <= x

\* Mutant: no fallback to an earlier date folder.
trait_get_all_today_only(d, t, user) == get_from_fs(d, user, t)

\* <FsMessageRepo as MessageRepo>::get_all_for_user (lines 124-156)
trait_get_all_for_user(d, t, user) ==
    LET r == get_from_fs(d, user, t) IN
    IF r.panic THEN r
    ELSE IF r.chats = <<>>
    THEN IF date_folders(d, user) = {}
         THEN [panic |-> FALSE, chats |-> <<>>]
         ELSE get_from_fs(d, user, MaxOf(date_folders(d, user)))
    ELSE r

\* FsMessageRepo::get_all_for_user, the inherent method (lines 35-43): the
\* cached chats of the user, in the HashMap's iteration order (any order).
inherent_get_all_for_user(mem, user) ==
    LET S == {mem[k] : k \in {kk \in Keys : kk[2] = user /\ mem[kk] # NoChat}}
        n == Cardinality(S)
    IN {s \in [1..n -> S] : \A i, j \in 1..n : s[i] = s[j] => i = j}

\* ---- cosine_similarity (lines 46-52), in fixed point with Scale units per 1.0
RECURSIVE Dot(_, _, _)
Dot(v1, v2, n) ==
    IF n = 0 THEN 0 ELSE v1[n] * v2[n] + Dot(v1, v2, n - 1)

dot_product(v1, v2) == Dot(v1, v2, Min(Len(v1), Len(v2)))

\* f32::sqrt, rounded down to the fixed-point grid (Newton's iteration)
RECURSIVE Newton(_, _)
Newton(x, r) ==
    LET n == (r + x \div r) \div 2 IN IF n >= r THEN r ELSE Newton(x, n)

ISqrt(x) == IF x = 0 THEN 0 ELSE Newton(x, x)

magnitude(v) == ISqrt(Dot(v, v, Len(v)) * Scale * Scale)

\* A zero magnitude product divides 0.0 by 0.0: NaN.
cosine_similarity(v1, v2) ==
    LET magnitude_product == magnitude(v1) * magnitude(v2) IN
    IF magnitude_product = 0
    THEN [nan |-> TRUE, val |-> 0]
    ELSE [nan |-> FALSE,
          val |-> (dot_product(v1, v2) * Scale * Scale * Scale) \div magnitude_product]

\* The loop of embeddings_search_for_user (lines 165-171) over chats.
rank(chats, query_vector) ==
    [i \in 1..Len(chats) |->
        [score |-> cosine_similarity(chats[i].embedding, query_vector),
         chat |-> chats[i]]]

\* ----------------------------------------------------------------- actions

\* MessageRepo::save_chat for FsMessageRepo (lines 77-98)
save_chat(user, date, chat, io) ==
    /\ nsaves < MaxSaves
    /\ nsaves' = nsaves + 1
    /\ memory' = memory_insert(memory, user, chat)
    /\ LET s == save_to_disk(disk, user, date, chat, io) IN
       /\ disk' = s.disk
       /\ last' = IF s.panic
                  THEN Obs("save", user, chat.hash, date, io, <<>>, "panic", NoChat, <<>>, <<>>)
                  ELSE Obs("save", user, chat.hash, date, io, <<>>, "Ok", chat, <<>>, <<>>)
    /\ everSaved' = everSaved \cup {<<chat.hash, user>>}
    /\ procSaved' = [procSaved EXCEPT ![<<chat.hash, user>>] = chat]
    /\ UNCHANGED <<today, outside_repo>>

\* MessageRepo::get_chat for FsMessageRepo (lines 100-122)
get_chat(user, id) ==
    LET g == get_chat_result(memory, disk, today, user, id) IN
    /\ memory' = g.memory
    /\ last' = Obs("get", user, id, today, "", <<>>, g.res, g.chat, <<>>, <<>>)
    /\ UNCHANGED <<disk, today, nsaves, everSaved, procSaved, outside_repo>>

\* Mutant: list-all takes &mut self and caches what it read.
get_all_for_user_caching(user) ==
    LET r == trait_get_all_for_user(disk, today, user) IN
    /\ last' = Obs("list", user, "", today, "", <<>>,
                   IF r.panic THEN "panic" ELSE "Ok", NoChat, r.chats, <<>>)
    /\ memory' = memory_insert_all(memory, user, r.chats)
    /\ UNCHANGED <<disk, today, nsaves, everSaved, procSaved, outside_repo>>

\* MessageRepo::get_all_for_user as callers of the trait object see it
get_all_for_user(user) ==
    LET r == trait_get_all_for_user(disk, today, user) IN
    /\ last' = Obs("list", user, "", today, "", <<>>,
                   IF r.panic THEN "panic" ELSE "Ok", NoChat, r.chats, <<>>)
    /\ UNCHANGED <<memory, disk, today, nsaves, everSaved, procSaved, outside_repo>>

\* repo.get_all_for_user(user) on a FsMessageRepo value (test_get_all_for_user,
\* line 336): method lookup picks the inherent method (lines 35-43) before the
\* trait's, so this list-all is the cache scan.
get_all_for_user_inherent(user) ==
    \E chats \in inherent_get_all_for_user(memory, user) :
        /\ last' = Obs("list_inherent", user, "", today, "", <<>>, "Ok", NoChat,
                       chats, <<>>)
        /\ UNCHANGED <<memory, disk, today, nsaves, everSaved, procSaved, outside_repo>>

\* MessageRepo::embeddings_search_for_user (lines 158-172); inside the impl
\* self.get_all_for_user resolves to the inherent method.
embeddings_search_for_user(user, query_vector) ==
    \E chats \in inherent_get_all_for_user(memory, user) :
        /\ last' = Obs("search", user, "", today, "", query_vector, "Ok", NoChat,
                       <<>>, rank(chats, query_vector))
        /\ UNCHANGED <<memory, disk, today, nsaves, everSaved, procSaved, outside_repo>>

\* The process ends and a new one starts: FsMessageRepo::new() (lines 29-33)
\* over the same storage directory.
Restart ==
    /\ memory' = EmptyMemory
    /\ procSaved' = EmptyMemory
    /\ last' = Obs("restart", "", "", today, "", <<>>, "", NoChat, <<>>, <<>>)
    /\ UNCHANGED <<disk, today, nsaves, everSaved, outside_repo>>

\* Midnight passes: chrono::Local::now().date_naive() moves to the next day.
Tick ==
    /\ today + 1 \in Dates
    /\ today' = today + 1
    /\ last' = Obs("tick", "", "", today + 1, "", <<>>, "", NoChat, <<>>, <<>>)
    /\ UNCHANGED <<memory, disk, nsaves, everSaved, procSaved, outside_repo>>

\* The repository behind Arc<Mutex<dyn MessageRepo>>, over a storage directory
\* where every create_dir_all and every write succeeds.
Next ==
    \/ \E user \in Users, date \in SaveDates, chat \in Messages :
           save_chat(user, date, chat, "ok")
    \/ \E user \in Users, id \in Ids : get_chat(user, id)
    \/ \E user \in Users : get_all_for_user(user)
    \/ \E user \in Users, q \in Queries : embeddings_search_for_user(user, q)
    \/ Restart
    \/ Tick

Spec == Init /\ [][Next]_vars

\* The repository as code that holds the FsMessageRepo value itself calls it
\* (the tests of messages.rs): the trait's operations, and get_all_for_user in
\* method-call syntax, which is the inherent method.
NextFs ==
    \/ \E user \in Users, date \in SaveDates, chat \in Messages :
           save_chat(user, date, chat, "ok")
    \/ \E user \in Users, id \in Ids : get_chat(user, id)
    \/ \E user \in Users : get_all_for_user(user)
    \/ \E user \in Users : get_all_for_user_inherent(user)
    \/ \E user \in Users, q \in Queries : embeddings_search_for_user(user, q)
    \/ Restart
    \/ Tick

SpecFs == Init /\ [][NextFs]_vars

\* The same repository when storage calls may fail.
NextIo ==
    \/ \E user \in Users, date \in Dates, chat \in Messages, io \in IoOutcomes :
           save_chat(user, date, chat, io)
    \/ \E user \in Users, id \in Ids : get_chat(user, id)
    \/ \E user \in Users : get_all_for_user(user)
    \/ \E user \in Users, q \in Queries : embeddings_search_for_user(user, q)
    \/ Restart
    \/ Tick

SpecIo == Init /\ [][NextIo]_vars

\* ------------------------------------------- MockMessageRepo (lines 179-219)

\* vec![0.1, 0.2, 0.3], in tenths
MockEmbedding == <<1, 2, 3>>

\* The ChatModel literal of the stub's get_chat and embeddings_search_for_user.
MockChat(hash) ==
    [role |-> "user", content |-> "Hello", hash |-> hash, embedding |-> MockEmbedding]

\* Mutant: the stub keeps the chat it was handed.
mock_save_chat_storing(self, date, user, chat) ==
    [self |-> <<chat>>, chat |-> chat]

\* MockMessageRepo::save_chat(&mut self, _date, _user, chat) -> chat
mock_save_chat(self, date, user, chat) ==
    [self |-> self, chat |-> chat]

\* MockMessageRepo::get_all_for_user(&self, _user) -> vec![]
mock_get_all_for_user(self, user) == <<>>

\* MockMessageRepo::get_chat(&mut self, _user, id) -> Ok(ChatModel { hash: id, .. })
mock_get_chat(self, user, id) ==
    [self |-> self, res |-> "Ok", chat |-> MockChat(id)]

\* MockMessageRepo::embeddings_search_for_user(&self, ..) -> vec![(0.1, ChatModel)]
mock_embeddings_search_for_user(self, user, query_vector) ==
    <<[score |-> [nan |-> FALSE, val |-> Scale \div 10], chat |-> MockChat("123")]>>

MockSave(user, date, chat) ==
    LET r == mock_save_chat(mock, date, user, chat) IN
    /\ mock' = r.self
    /\ mock_prev' = mock_last
    /\ mock_last' = MockObs("save", user, "", date, <<>>, chat, "Ok", r.chat, <<>>, <<>>)
    /\ UNCHANGED <<repo_vars, path_vars, named_vars, handler_vars>>

MockGet(user, id) ==
    LET r == mock_get_chat(mock, user, id) IN
    /\ mock' = r.self
    /\ mock_prev' = mock_last
    /\ mock_last' = MockObs("get", user, id, 0, <<>>, NoChat, r.res, r.chat, <<>>, <<>>)
    /\ UNCHANGED <<repo_vars, path_vars, named_vars, handler_vars>>

MockList(user) ==
    /\ mock_prev' = mock_last
    /\ mock_last' = MockObs("list", user, "", 0, <<>>, NoChat, "Ok", NoChat,
                            mock_get_all_for_user(mock, user), <<>>)
    /\ UNCHANGED <<mock, repo_vars, path_vars, named_vars, handler_vars>>

MockSearch(user, query_vector) ==
    /\ mock_prev' = mock_last
    /\ mock_last' = MockObs("search", user, "", 0, query_vector, NoChat, "Ok", NoChat, <<>>,
                            mock_embeddings_search_for_user(mock, user, query_vector))
    /\ UNCHANGED <<mock, repo_vars, path_vars, named_vars, handler_vars>>

NextMock ==
    \/ \E user \in Users, date \in Dates, chat \in Messages : MockSave(user, date, chat)
    \/ \E user \in Users, id \in Ids : MockGet(user, id)
    \/ \E user \in Users : MockList(user)
    \/ \E user \in Users, q \in Queries : MockSearch(user, q)

SpecMock == Init /\ [][NextMock]_vars

\* ------------------------- get_root_path / get_path_for_date (lines 54-66)
Resolve(user, date) ==
    /\ path_prev' = path_last
    /\ path_last' = [done |-> TRUE, user |-> user, date |-> date,
                     path |-> DayFile(user, date)]
    /\ UNCHANGED <<repo_vars, mock_vars, handler_vars, named_vars>>

NextPath == \E user \in UserNames, date \in Dates : Resolve(user, date)

SpecPath == Init /\ [][NextPath]_vars

\* --------------- FsMessageRepo over user names (messages.rs 35-43, 68-172)
\* The same operations as above, with the user a string and every day file
\* found through the path the resolver gives; storage is healthy.

\* get_from_fs(path) for the day file of (user, date)
named_get_from_fs(files, user, date) == files[Components(DayFile(user, date))]

IsPrefix(dir, loc) == Len(dir) < Len(loc) /\ SubSeq(loc, 1, Len(dir)) = dir

\* std::fs::read_dir(&path): the names of the entries of the directory, the
\* empty set when it does not exist (Err(_) => return vec![]).
read_dir(files, dir) ==
    {loc[Len(dir) + 1] : loc \in {l \in FileLocs : files[l] # <<>> /\ IsPrefix(dir, l)}}

\* NaiveDate::parse_from_str(name, "%Y-%m-%d"): 0 when the name is no date
ParseDate(name) ==
    IF \E date \in Dates : format_date(date) = name
    THEN CHOOSE date \in Dates : format_date(date) = name
    ELSE 0

\* <FsMessageRepo as MessageRepo>::get_all_for_user (lines 124-156)
named_trait_get_all_for_user(files, t, user) ==
    LET r == named_get_from_fs(files, user, t) IN
    IF r # <<>> THEN [panic |-> FALSE, chats |-> r]
    ELSE LET entries == read_dir(files, Components(get_root_path(user)))
             date_folders_ == {ParseDate(name) : name \in entries}
         IN IF entries = {} THEN [panic |-> FALSE, chats |-> <<>>]
            ELSE IF 0 \in date_folders_ THEN [panic |-> TRUE, chats |-> <<>>]
            ELSE [panic |-> FALSE,
                  chats |-> named_get_from_fs(files, user, MaxOf(date_folders_))]

\* self.memory.insert((chat.hash.clone(), user.clone()), chat.clone())
named_memory_insert(mem, user, chat) ==
    [mem EXCEPT ![<<chat.hash, user>>] = chat]

RECURSIVE named_memory_insert_all(_, _, _)
named_memory_insert_all(mem, user, chats) ==
    IF chats = <<>> THEN mem
    ELSE named_memory_insert_all(named_memory_insert(mem, user, Head(chats)),
                                 user, Tail(chats))

\* FsMessageRepo::get_all_for_user, the inherent method (lines 35-43)
named_inherent_get_all_for_user(mem, user) ==
    LET S == {mem[k] : k \in {kk \in NamedKeys : kk[2] = user /\ mem[kk] # NoChat}}
        n == Cardinality(S)
    IN {s \in [1..n -> S] : \A i, j \in 1..n : s[i] = s[j] => i = j}

\* save_chat (lines 77-98)
named_save_chat(user, date, chat) ==
    LET loc == Components(DayFile(user, date)) IN
    /\ nsaves < MaxSaves
    /\ nsaves' = nsaves + 1
    /\ named_memory' = named_memory_insert(named_memory, user, chat)
    /\ named_files' = [named_files EXCEPT ![loc] = push(named_files[loc], chat)]
    /\ everSaved' = everSaved \cup {<<chat.hash, user>>}
    /\ last' = Obs("save", user, chat.hash, date, "ok", <<>>, "Ok", chat, <<>>, <<>>)
    /\ UNCHANGED <<memory, disk, today, procSaved, mock_vars, path_vars, handler_vars>>

\* get_chat (lines 100-122)
named_get_chat(user, id) ==
    LET key == <<id, user>>
        mem1 == IF named_memory[key] # NoChat THEN named_memory
                ELSE named_memory_insert_all(named_memory, user,
                                             named_get_from_fs(named_files, user, today))
    IN
    /\ named_memory' = mem1
    /\ last' = Obs("get", user, id, today, "", <<>>,
                   IF mem1[key] # NoChat THEN "Ok" ELSE "Err", mem1[key], <<>>, <<>>)
    /\ UNCHANGED <<named_files, memory, disk, today, nsaves, everSaved, procSaved,
                   mock_vars, path_vars, handler_vars>>

\* get_all_for_user through the trait (lines 124-156)
named_get_all_for_user(user) ==
    LET r == named_trait_get_all_for_user(named_files, today, user) IN
    /\ last' = Obs("list", user, "", today, "", <<>>,
                   IF r.panic THEN "panic" ELSE "Ok", NoChat, r.chats, <<>>)
    /\ UNCHANGED <<named_vars, memory, disk, today, nsaves, everSaved, procSaved,
                   mock_vars, path_vars, handler_vars>>

\* embeddings_search_for_user (lines 158-172), over the inherent method
named_embeddings_search_for_user(user, query_vector) ==
    \E chats \in named_inherent_get_all_for_user(named_memory, user) :
        /\ last' = Obs("search", user, "", today, "", query_vector, "Ok", NoChat,
                       <<>>, rank(chats, query_vector))
        /\ UNCHANGED <<named_vars, memory, disk, today, nsaves, everSaved, procSaved,
                       mock_vars, path_vars, handler_vars>>

\* The user names that stay below the storage root: those PathBuf::join
\* appends (an absolute name would replace the root).
RelativeNames == {user \in UserNames : ~is_absolute(user)}

NextNamed ==
    \/ \E user \in RelativeNames, date \in SaveDates, chat \in Messages :
           named_save_chat(user, date, chat)
    \/ \E user \in RelativeNames, id \in Ids : named_get_chat(user, id)
    \/ \E user \in RelativeNames : named_get_all_for_user(user)
    \/ \E user \in RelativeNames, q \in Queries :
           named_embeddings_search_for_user(user, q)

SpecNamed == Init /\ [][NextNamed]_vars

\* ------------------------ ChatHandlerImpl (src/src/handlers/chat.rs 62-128)
\* Each handler is an async fn: it can be suspended at every .await (a lock, the
\* embeddings call) and runs without interruption between two of them.  The
\* repository call itself is synchronous; its file read and file write are two
\* steps of the file system, so that what the lock protects can be seen.

\* "my_user".to_string(), the user of every handler call
my_user == "alice"

\* The ChatModel save_chat builds (lines 86-91) from the request and the
\* embeddings the provider returned for its content.
RequestChat(hash) == ChatModel(hash, "A")

\* The embeddings of the query of search_chat.
QueryVector == <<1, 2>>

\* Mutant: the lock is handed out even when it is held.
can_lock_always(holder) == TRUE

\* tokio::sync::Mutex::lock().await completes when the mutex is free.
can_lock(holder) == holder = 0

\* Dropping a MutexGuard (at return, or while a panic unwinds).
unlock(holder, t) == IF holder = t THEN 0 ELSE holder

\* The handlers save_chat, get_chat, search_chat are called (a request arrives).
Call(t, op, hash) ==
    /\ task[t].pc \in {"idle", "done"}
    /\ ncalls < MaxCalls
    /\ ncalls' = ncalls + 1
    /\ task' = [task EXCEPT ![t] =
                  [Idle EXCEPT !.op = op, !.hash = hash,
                               !.pc = IF op = "save" THEN "lock_emb" ELSE "lock_repo"]]
    /\ UNCHANGED <<emb_lock, repo_lock, saves_done, repo_vars, mock_vars, path_vars, named_vars>>

\* self.embedding_client.lock().await (lines 78 and 114)
lock_embedding_client(t) ==
    /\ task[t].pc = "lock_emb"
    /\ can_lock(emb_lock)
    /\ emb_lock' = t
    /\ task' = [task EXCEPT ![t].pc = "embed"]
    /\ UNCHANGED <<repo_lock, ncalls, saves_done, repo_vars, mock_vars, path_vars, named_vars>>

\* self.message_repo.lock().await (lines 93, 100-103 and 111)
lock_message_repo(t) ==
    /\ task[t].pc = "lock_repo"
    /\ can_lock(repo_lock)
    /\ repo_lock' = t
    /\ task' = [task EXCEPT ![t].pc = CASE task[t].op = "save" -> "save_read"
                                        [] task[t].op = "get" -> "get"
                                        [] OTHER -> "lock_emb"]
    /\ UNCHANGED <<emb_lock, ncalls, saves_done, repo_vars, mock_vars, path_vars, named_vars>>

\* embeddings_client.get_embeddings(..).await returns Ok or Err.  save_chat
\* returns Err(()) on Err (lines 81-84); search_chat unwraps (lines 115-118).
get_embeddings(t, result) ==
    /\ task[t].pc = "embed"
    /\ IF result = "Ok"
       THEN /\ task' = [task EXCEPT ![t].emb = "Ok",
                                    ![t].pc = IF task[t].op = "save" THEN "lock_repo"
                                              ELSE "search"]
            /\ UNCHANGED <<emb_lock, repo_lock>>
       ELSE /\ task' = [task EXCEPT ![t].emb = "Err", ![t].pc = "done",
                                    ![t].res = IF task[t].op = "save" THEN "Err"
                                               ELSE "panic"]
            /\ emb_lock' = unlock(emb_lock, t)
            /\ repo_lock' = unlock(repo_lock, t)
    /\ UNCHANGED <<ncalls, saves_done, repo_vars, mock_vars, path_vars, named_vars>>

\* message_repo.save_chat (line 94), first half: FsMessageRepo::save_chat up
\* to get_from_fs (messages.rs 78-85).  The handler passes no date; the day is
\* today's.
repo_save_read(t) ==
    /\ task[t].pc = "save_read"
    /\ memory' = memory_insert(memory, my_user, RequestChat(task[t].hash))
    /\ disk' = create_dir_all(disk, my_user, today)
    /\ task' = [task EXCEPT ![t].pc = "save_write", ![t].stored = TRUE,
                            ![t].chats = get_from_fs(disk, my_user, today).chats]
    /\ UNCHANGED <<emb_lock, repo_lock, ncalls, saves_done, today, nsaves, everSaved,
                   procSaved, last, mock_vars, path_vars, named_vars>>

\* message_repo.save_chat, second half (messages.rs 88-97), and the return of
\* the handler (lines 95-96), which drops both guards.
repo_save_write(t) ==
    /\ task[t].pc = "save_write"
    /\ disk' = fs_write(disk, my_user, today,
                        push(task[t].chats, RequestChat(task[t].hash)), "ok")
    /\ task' = [task EXCEPT ![t].pc = "done", ![t].repo_res = "Ok", ![t].res = "Ok"]
    /\ saves_done' = saves_done + 1
    /\ emb_lock' = unlock(emb_lock, t)
    /\ repo_lock' = unlock(repo_lock, t)
    /\ UNCHANGED <<ncalls, memory, today, nsaves, everSaved, procSaved, last,
                   mock_vars, path_vars, named_vars>>

\* .get_chat("my_user", id).unwrap() (lines 100-105) and the return: an Err of
\* the repository panics in unwrap; the guard is dropped either way.
repo_get_chat(t) ==
    LET g == get_chat_result(memory, disk, today, my_user, task[t].hash) IN
    /\ task[t].pc = "get"
    /\ memory' = g.memory
    /\ task' = [task EXCEPT ![t].pc = "done", ![t].repo_res = g.res,
                            ![t].res = IF g.res = "Ok" THEN "Ok" ELSE "panic"]
    /\ repo_lock' = unlock(repo_lock, t)
    /\ UNCHANGED <<emb_lock, ncalls, saves_done, disk, today, nsaves, everSaved,
                   procSaved, last, mock_vars, path_vars, named_vars>>

\* repo.embeddings_search_for_user(user, query_vector) and the return (lines
\* 120-127).
repo_search(t) ==
    /\ task[t].pc = "search"
    /\ \E chats \in inherent_get_all_for_user(memory, my_user) :
          task' = [task EXCEPT ![t].pc = "done", ![t].repo_res = "Ok", ![t].res = "Ok",
                               ![t].ranked = rank(chats, QueryVector)]
    /\ emb_lock' = unlock(emb_lock, t)
    /\ repo_lock' = unlock(repo_lock, t)
    /\ UNCHANGED <<ncalls, saves_done, repo_vars, mock_vars, path_vars, named_vars>>

NextHandlers ==
    \/ \E t \in Tasks, hash \in Ids : Call(t, "save", hash)
    \/ \E t \in Tasks, hash \in Ids : Call(t, "get", hash)
    \/ \E t \in Tasks : Call(t, "search", "")
    \/ \E t \in Tasks : lock_embedding_client(t)
    \/ \E t \in Tasks : lock_message_repo(t)
    \/ \E t \in Tasks, result \in {"Ok", "Err"} : get_embeddings(t, result)
    \/ \E t \in Tasks : repo_save_read(t)
    \/ \E t \in Tasks : repo_save_write(t)
    \/ \E t \in Tasks : repo_get_chat(t)
    \/ \E t \in Tasks : repo_search(t)

SpecHandlers == Init /\ [][NextHandlers]_vars

\* ------------------------------------------------------------------ claims

\* The hashes of a day file's records.
HashesOf(chats) == {chats[i].hash : i \in 1..Len(chats)}

\* The chats of a ranked result, in order.
ChatsOf(ranked) == [i \in 1..Len(ranked) |-> ranked[i].chat]

\* C1: a get_chat that directly follows a save_chat of the same user and
\* hash returns Ok with the role, content and hash of the saved chat.
C1_RoundTrip ==
    [][(last.op = "save" /\ last'.op = "get"
            /\ last'.user = last.user /\ last'.id = last.id)
        => /\ last'.res = "Ok"
           /\ last'.chat.role = last.chat.role
           /\ last'.chat.content = last.chat.content
           /\ last'.chat.hash = last.chat.hash]_vars

\* C1 witness: a get has returned the chat saved in this process for a date
\* other than today, so the answer came from the cache and not from today's file.
C1_Witness ==
    /\ last.op = "get" /\ last.res = "Ok"
    /\ procSaved[<<last.id, last.user>>] = last.chat
    /\ last.id \notin HashesOf(disk[last.user, today].chats)

\* C2: within one process, get_chat(user, id) returns the chat of the most
\* recent save_chat(_, user, chat) with chat.hash = id, whatever happened in between.
C2_GetObservesLatestSave ==
    (last.op = "get" /\ procSaved[<<last.id, last.user>>] # NoChat)
        => (last.res = "Ok" /\ last.chat = procSaved[<<last.id, last.user>>])

\* C3: get_chat(user, id) is Err whenever save_chat was never called with that
\* user and a chat of that hash.
C3_IsolationAndMiss ==
    (last.op = "get" /\ <<last.id, last.user>> \notin everSaved) => last.res = "Err"

\* C3 witness: a get answered Err for a hash that is cached and on today's
\* file of another user.
C3_Witness ==
    /\ last.op = "get" /\ last.res = "Err"
    /\ \E other \in Users \ {last.user} :
           /\ memory[<<last.id, other>>] # NoChat
           /\ last.id \in HashesOf(disk[other, today].chats)

\* The dates of a user whose day file holds at least one record.
DaysWithData(user) == {date \in Dates : disk[user, date].chats # <<>>}

\* C4: when today's day file of the user is absent or empty, list-all returns
\* the file of the most recent past date that has a non-empty day file, date
\* folders without messages being skipped, and <<>> when no date has data.
\* (Stated for users whose date folders are all parseable and none later than today.)
C4_DayFallback ==
    (/\ last.op = "list" /\ last.res = "Ok"
     /\ \A date \in Dates : ~disk[last.user, date].bad
     /\ \A date \in Dates : disk[last.user, date].dir => date <= today
     /\ disk[last.user, today].chats = <<>>)
        => last.chats = IF DaysWithData(last.user) = {} THEN <<>>
                        ELSE disk[last.user, MaxOf(DaysWithData(last.user))].chats

\* C5: directly after a restart, get_chat(user, id) is Ok exactly when today's
\* file of the user holds a record of that hash, and get_all_for_user, when
\* today's file is empty, returns the file of the user's latest date folder.
C5_ColdRestart ==
    [][last.op = "restart"
        => /\ last'.op = "get"
                => (last'.res = "Ok"
                        <=> last'.id \in HashesOf(disk[last'.user, today].chats))
           /\ \A date \in Dates :
                (/\ last'.op = "list"
                 /\ disk[last'.user, today].chats = <<>>
                 /\ disk[last'.user, date].dir
                 /\ \A e \in Dates : disk[last'.user, e].dir => e <= date)
                    => (last'.res = "Ok" /\ last'.chats = disk[last'.user, date].chats)]_vars

\* C5 witness: with the cache empty after a restart, list-all has returned a
\* chat of a past date whose hash get_chat would not find in today's file.
C5_Witness ==
    /\ last.op = "list" /\ last.chats # <<>>
    /\ memory = EmptyMemory
    /\ disk[last.user, today].chats = <<>>
    /\ \E date \in Dates : date < today /\ last.chats = disk[last.user, date].chats
    /\ get_chat_result(memory, disk, today, last.user, last.chats[1].hash).res = "Err"

\* The number of records of a day file that carry the hash.
CountHash(chats, hash) == Cardinality({i \in 1..Len(chats) : chats[i].hash = hash})

\* C6: a save whose (user, date) file already holds a record of the same hash
\* leaves one cache entry of that hash for the user, holding the chat just
\* saved, and one more record of that hash in the file (two after the second
\* save), the earlier records being kept.
C6_DuplicateIdentity ==
    [][(/\ last'.op = "save"
        /\ CountHash(disk[last'.user, last'.date].chats, last'.id) >= 1)
        => /\ memory'[<<last'.id, last'.user>>] = last'.chat
           /\ Cardinality({k \in Keys : k[2] = last'.user
                                        /\ memory'[k].hash = last'.id}) = 1
           /\ LET before == disk[last'.user, last'.date].chats
                  after == disk'[last'.user, last'.date].chats
              IN /\ CountHash(after, last'.id) = CountHash(before, last'.id) + 1
                 /\ Len(after) = Len(before) + 1
                 /\ after[Len(after)] = last'.chat
                 /\ CountHash(before, last'.id) = 1 => CountHash(after, last'.id) = 2]_vars

\* C6 witness: a day file of exactly two records of one hash with different
\* contents, and the cache holding the second.
C6_Witness ==
    /\ last.op = "save"
    /\ LET f == disk[last.user, last.date].chats IN
       /\ Len(f) = 2
       /\ f[1].hash = f[2].hash /\ f[1] # f[2]
       /\ memory[<<last.id, last.user>>] = f[2]
       /\ last.chat = f[2]

\* The day list-all resolves to: today's file, or the latest date folder's.
ResolvedDay(user) ==
    IF disk[user, today].chats # <<>> THEN disk[user, today].chats
    ELSE IF date_folders(disk, user) = {} THEN <<>>
    ELSE disk[user, MaxOf(date_folders(disk, user))].chats

\* C7: when the resolved day of the user holds exactly one chat and the query
\* equals its embedding, search returns exactly one result, of similarity 1.0
\* (one unit of the fixed-point grid of tolerance), also after a restart.
C7_SimilarityExact ==
    (/\ last.op = "search"
     /\ Len(ResolvedDay(last.user)) = 1
     /\ last.query = ResolvedDay(last.user)[1].embedding)
        => /\ Len(last.ranked) = 1
           /\ ~last.ranked[1].score.nan
           /\ last.ranked[1].score.val \in (Scale - 1)..(Scale + 1)

\* C8: search ranks exactly the chats list-all returns in the same state, one
\* pair per chat, in the same order.
C8_SearchRanksListAll ==
    last.op = "search"
        => ChatsOf(last.ranked) = trait_get_all_for_user(disk, today, last.user).chats

C10_StorageErrorSurfaced ==
    (last.op = "save" /\ last.io # "ok") => last.res = "Err"

\* C11: a day file that cannot be parsed is read as the empty sequence: save
\* (once its directory exists), get and list-all go on and do not panic.
C11_UnparseableAsAbsent ==
    (\/ last.op \in {"get", "list"}
     \/ (last.op = "save" /\ last.io # "nodir"))
        => last.res # "panic"

\* C16: whichever way list-all is called (through the trait object, or as
\* repo.get_all_for_user on the file-backed store itself), all the records of
\* its result come from one single day file of the user.
C16_OneDayOnly ==
    last.op \in {"list", "list_inherent"}
        => \E date \in Dates :
              \A i \in 1..Len(last.chats) :
                 \E j \in 1..Len(disk[last.user, date].chats) :
                    last.chats[i] = disk[last.user, date].chats[j]

\* The last record of a day file that carries the hash.
LastWithHash(chats, hash) ==
    chats[CHOOSE i \in 1..Len(chats) :
            /\ chats[i].hash = hash
            /\ \A j \in 1..Len(chats) : chats[j].hash = hash => j <= i]

\* C17: on a cache hit get_chat returns the cached chat and leaves the cache
\* as it is; on a miss the cache afterwards holds, under (hash, user), every
\* record of the user's file of today and is otherwise unchanged (no other
\* day's record comes in), and the answer is Ok exactly when today's file has
\* the hash.
C17_GetMissLoadsToday ==
    [][last'.op = "get"
        => LET user == last'.user
               key == <<last'.id, last'.user>>
               f == disk[last'.user, today].chats
           IN IF memory[key] # NoChat
              THEN /\ memory' = memory
                   /\ last'.res = "Ok" /\ last'.chat = memory[key]
              ELSE /\ \A k \in Keys :
                        memory'[k] = IF k[2] = user /\ k[1] \in HashesOf(f)
                                     THEN LastWithHash(f, k[1])
                                     ELSE memory[k]
                   /\ last'.res = "Ok" <=> last'.id \in HashesOf(f)
                   /\ last'.res = "Ok" => last'.chat = LastWithHash(f, last'.id)]_vars

\* C17 witness: after a restart a get has loaded both records of today's file.
C17_Witness ==
    /\ last.op = "get" /\ last.res = "Ok"
    /\ procSaved = EmptyMemory
    /\ Len(disk[last.user, today].chats) = 2
    /\ \A id \in Ids : memory[<<id, last.user>>] # NoChat

\* C20: get, list-all and search leave every day file as it is, list-all and
\* search leave the cache as it is; only save changes a day file, and only
\* save, a get miss and a new process change the cache.
C20_ReadsDoNotWrite ==
    [][/\ last'.op \in {"get", "list", "list_inherent", "search"} => disk' = disk
       /\ last'.op \in {"list", "list_inherent", "search"} => memory' = memory
       /\ disk' # disk => last'.op = "save"
       /\ memory' # memory
            => \/ last'.op \in {"save", "restart"}
               \/ (last'.op = "get" /\ memory[<<last'.id, last'.user>>] = NoChat)]_vars

\* C20 witness: list-all has returned a day's records while the cache stays empty.
C20_Witness ==
    /\ last.op = "list" /\ Len(last.chats) = 2
    /\ memory = EmptyMemory

\* C14: the stub's save returns the chat it was handed, its get returns Ok
\* with the fabricated chat carrying the asked id, its search returns one
\* fabricated scored chat, for any arguments and whatever was called before;
\* the stub's value never changes.
C14_StubStateless ==
    /\ mock = mock_new
    /\ mock_last.op = "save" => mock_last.res = "Ok" /\ mock_last.chat = mock_last.arg
    /\ mock_last.op = "get"
         => /\ mock_last.res = "Ok"
            /\ mock_last.chat = [role |-> "user", content |-> "Hello",
                                 hash |-> mock_last.id, embedding |-> <<1, 2, 3>>]
    /\ mock_last.op = "search"
         => /\ Len(mock_last.ranked) = 1
            /\ mock_last.ranked[1].chat = [role |-> "user", content |-> "Hello",
                                            hash |-> "123", embedding |-> <<1, 2, 3>>]
            /\ mock_last.ranked[1].score = [nan |-> FALSE, val |-> Scale \div 10]
    /\ (mock_prev.op = mock_last.op /\ mock_prev.user = mock_last.user
        /\ mock_prev.id = mock_last.id /\ mock_prev.date = mock_last.date
        /\ mock_prev.query = mock_last.query /\ mock_prev.arg = mock_last.arg)
         => mock_prev = mock_last

\* C14 witness: a get that follows the save of another chat returns the
\* fabricated chat under the asked id.
C14_Witness ==
    /\ mock_prev.op = "save" /\ mock_prev.arg.hash = "h1" /\ mock_prev.arg.content = "Bye"
    /\ mock_last.op = "get" /\ mock_last.id = "h1"
    /\ mock_last.chat.content = "Hello"

\* C15: two resolutions that give the same day-file path were made for the
\* same user and the same date, and two resolutions for the same user and
\* date give the same path.
C15_PathInjective ==
    (path_prev.done /\ path_last.done)
        => (path_prev.path = path_last.path
              <=> (path_prev.user = path_last.user /\ path_prev.date = path_last.date))

\* C12: a handler invocation whose embeddings call failed has returned
\* Err(()) and, when it is a save, has put nothing in the cache or a day file.
C12_UpstreamFailureIsError ==
    \A t \in Tasks :
        task[t].emb = "Err" => (task[t].res = "Err" /\ ~task[t].stored)

\* C13: a get_chat invocation of the handler whose repository call reported
\* Err(()) (not found) has returned Err(()) to its caller.
C13_NotFoundIsError ==
    \A t \in Tasks :
        (task[t].op = "get" /\ task[t].repo_res = "Err") => task[t].res = "Err"

\* The positions of a handler inside a call of the repository.
RepoSection == {"save_read", "save_write", "get", "search"}

\* C18: a handler inside a repository call holds the repository lock, so two
\* handlers are never inside one at the same time, and the day file holds one
\* record per save_chat invocation that has returned.
C18_RepoLockSerialises ==
    /\ \A t \in Tasks : task[t].pc \in RepoSection => repo_lock = t
    /\ \A t1, t2 \in Tasks :
          (task[t1].pc \in RepoSection /\ task[t2].pc \in RepoSection) => t1 = t2
    /\ Len(disk[my_user, today].chats) = saves_done

\* C18 witness: one save has returned, a second is between its file read and
\* its file write, and a get waits for the repository lock meanwhile.
C18_Witness ==
    /\ saves_done = 1
    /\ \E a, b \in Tasks :
          /\ task[a].op = "save" /\ task[a].pc = "save_write"
          /\ Len(task[a].chats) = 1
          /\ task[b].op = "get" /\ task[b].pc = "lock_repo"

\* An invocation that has been called and has not returned.
Active(t) == task[t].pc \notin {"idle", "done"}

\* An invocation that waits for a lock another invocation holds.
Blocked(t) ==
    \/ task[t].pc = "lock_emb" /\ emb_lock \notin {0, t}
    \/ task[t].pc = "lock_repo" /\ repo_lock \notin {0, t}

\* C19: there is no state in which some invocation is running and every
\* running invocation waits for a lock that another one holds.
C19_NoDeadlock ==
    ~ (/\ \E t \in Tasks : Active(t)
       /\ \A t \in Tasks : Active(t) => Blocked(t))

\* C21: every chat that list-all or search returns for a user carries a hash
\* that save_chat was called with for that user.
C21_ListSearchIsolation ==
    /\ last.op = "list"
         => \A i \in 1..Len(last.chats) : <<last.chats[i].hash, last.user>> \in everSaved
    /\ last.op = "search"
         => \A i \in 1..Len(last.ranked) :
               <<last.ranked[i].chat.hash, last.user>> \in everSaved

====
